---- MODULE Spec2Model ----
(***************************************************************************)
(* Referral assistant: the conversation turn                               *)
(* (process_referral_conversation), the blast run (send_referral_blast)    *)
(* and the two pure helpers they rest on (is_declining and the phone       *)
(* cleaning of extract_referral_info), over a tenants table and a leads    *)
(* table.  Texts that the code inspects character by character (message    *)
(* texts, phone strings) are sequences of one-character strings.           *)
(***************************************************************************)
EXTENDS Integers, Sequences, FiniteSets, TLC

\* ---------------------------------------------------------------- bounds
MaxMsgLen == 5      \* longest message text given to the classifier
MaxPhoneLen == 4    \* longest raw phone string given to the cleaning
MaxTurns == 1       \* handler invocations (turns and blast runs) in a run
MaxRefs == 1        \* candidates in one extraction result
MaxBlasts == 2      \* blast runs in a sequence of blast runs

\* ------------------------------------------------------- text primitives
\* the elements of a sequence
Range(q) == {q[i] : i \in 1..Len(q)}
RECURSIVE SeqsUpTo(_, _)
SeqsUpTo(S, n) ==
  IF n = 0 THEN {<<>>}
  ELSE LET shorter == SeqsUpTo(S, n - 1)
       IN  shorter \cup {Append(s, c) : s \in {t \in shorter : Len(t) = n - 1}, c \in S}

MsgAlphabet == {" ", "N", "e", "n", "o", "s", "y"}
PhoneAlphabet == {"1", "5", "+", "-"}
Digits == {"0", "1", "2", "3", "4", "5", "6", "7", "8", "9"}

\* str.lower() on one character
LowerChar(c) ==
  CASE c = "A" -> "a" [] c = "B" -> "b" [] c = "C" -> "c" [] c = "D" -> "d"
    [] c = "E" -> "e" [] c = "F" -> "f" [] c = "G" -> "g" [] c = "H" -> "h"
    [] c = "I" -> "i" [] c = "J" -> "j" [] c = "K" -> "k" [] c = "L" -> "l"
    [] c = "M" -> "m" [] c = "N" -> "n" [] c = "O" -> "o" [] c = "P" -> "p"
    [] c = "Q" -> "q" [] c = "R" -> "r" [] c = "S" -> "s" [] c = "T" -> "t"
    [] c = "U" -> "u" [] c = "V" -> "v" [] c = "W" -> "w" [] c = "X" -> "x"
    [] c = "Y" -> "y" [] c = "Z" -> "z" [] OTHER -> c

Lower(s) == [i \in 1..Len(s) |-> LowerChar(s[i])]

IsSpace(c) == c \in {" ", "\t", "\n"}

RECURSIVE LStripSpace(_)
LStripSpace(s) ==
  IF s # <<>> /\ IsSpace(Head(s)) THEN LStripSpace(Tail(s)) ELSE s

RECURSIVE RStripSpace(_)
RStripSpace(s) ==
  IF s # <<>> /\ IsSpace(s[Len(s)]) THEN RStripSpace(SubSeq(s, 1, Len(s) - 1)) ELSE s

\* str.strip()
Strip(s) == RStripSpace(LStripSpace(s))

\* does p occur in s starting at position i
MatchAt(p, s, i) ==
  /\ i + Len(p) - 1 <= Len(s)
  /\ \A k \in 1..Len(p) : s[i + k - 1] = p[k]

\* the scan behind Python's "p in s": first position at or after i where p matches
RECURSIVE FindFrom(_, _, _)
FindFrom(p, s, i) ==
  IF i + Len(p) - 1 > Len(s) THEN 0
  ELSE IF MatchAt(p, s, i) THEN i
  ELSE FindFrom(p, s, i + 1)

In(p, s) == FindFrom(p, s, 1) # 0

\* ------------------------------------------------------ is_declining
positive_indicators ==
  << <<"i", " ", "k", "n", "o", "w">>,
     <<"y", "e", "s">>,
     <<"y", "e", "a", "h">>,
     <<"s", "u", "r", "e">>,
     <<"f", "r", "i", "e", "n", "d">>,
     <<"s", "o", "m", "e", "o", "n", "e">>,
     <<"l", "o", "o", "k", "i", "n", "g">>,
     <<"i", "n", "t", "e", "r", "e", "s", "t", "e", "d">>,
     <<"m", "i", "g", "h", "t">>,
     <<"c", "o", "u", "l", "d">>,
     <<"n", "a", "m", "e", " ", "i", "s">>,
     <<"n", "u", "m", "b", "e", "r", " ", "i", "s">>,
     <<"p", "h", "o", "n", "e">>,
     <<"c", "o", "n", "t", "a", "c", "t">>,
     <<"e", "m", "a", "i", "l">> >>

decline_patterns ==
  << <<"n", "o">>,
     <<"n", "o", "p", "e">>,
     <<"n", "o", "t", " ", "r", "e", "a", "l", "l", "y">>,
     <<"n", "o", "b", "o", "d", "y">>,
     <<"n", "o", "t", " ", "i", "n", "t", "e", "r", "e", "s", "t", "e", "d">>,
     <<"d", "o", "n", "'", "t", " ", "k", "n", "o", "w", " ", "a", "n", "y", "o", "n", "e">>,
     <<"d", "o", "n", "t", " ", "k", "n", "o", "w", " ", "a", "n", "y", "o", "n", "e">>,
     <<"n", "o", " ", "o", "n", "e">>,
     <<"n", "o", "t", " ", "r", "i", "g", "h", "t", " ", "n", "o", "w">>,
     <<"n", "o", "t", " ", "a", "t", " ", "t", "h", "e", " ", "m", "o", "m", "e", "n", "t">>,
     <<"c", "a", "n", "'", "t", " ", "t", "h", "i", "n", "k", " ", "o", "f", " ", "a", "n", "y", "o", "n", "e">> >>

\* any(pattern in message_lower for pattern in patterns), from position i on
RECURSIVE AnyIn(_, _, _)
AnyIn(patterns, s, i) ==
  IF i > Len(patterns) THEN FALSE
  ELSE IF In(patterns[i], s) THEN TRUE
  ELSE AnyIn(patterns, s, i + 1)

\* the classifier with the two vocabularies consulted in the wrong order
is_declining_declineFirst(message) ==
  LET message_lower == Strip(Lower(message))
  IN  IF AnyIn(decline_patterns, message_lower, 1) THEN TRUE
      ELSE FALSE

is_declining(message) ==
  LET message_lower == Strip(Lower(message))
  IN  IF AnyIn(positive_indicators, message_lower, 1) THEN FALSE
      ELSE AnyIn(decline_patterns, message_lower, 1)

\* ------------------------------------- phone cleaning (extract_referral_info)
\* re.sub(r'[^\d+]', '', phone)
KeepDigitsPlus(s) == SelectSeq(s, LAMBDA c : c \in Digits \cup {"+"})

\* phone.lstrip('1'): every leading '1' is removed
RECURSIVE LStrip1(_)
LStrip1(s) == IF s # <<>> /\ Head(s) = "1" THEN LStrip1(Tail(s)) ELSE s

clean_phone(phone) ==
  IF phone = <<>> THEN phone
  ELSE LET p == KeepDigitsPlus(phone)
       IN  IF p # <<>> /\ Head(p) # "+" THEN <<"+", "1">> \o LStrip1(p) ELSE p

\* ------------------------------------------------------------- the data
TenantPhones == {"t1", "t2"}            \* phones that have a Tenant record
SenderPhones == {"t1", "u1"}            \* senders of turns; "u1" has no Tenant record

NoMessage == <<"None">>                 \* payload.get('text') gave None
Messages == {NoMessage, <<"N", "o">>, <<"y", "e", "s", " ", "n", "o">>}

FallbackReply == "Thanks for your message! I'll have our team follow up."
DeclineAck == "No worries! Thanks for letting me know. Have a great day!"
GenFallback == "Thanks for your message! Do you know anyone who might be looking for housing?"
\* what response.choices[0].message.content.strip() can be
Replies == {"", "Perfect! Thanks for referring Sarah."}
blast_message == <<"Hi! This is the AI assistant from Cornerstone Real Estate.">>

NoKey == "<no key>"                     \* the candidate has no 'name' key
Phone555 == <<"5", "5", "5">>
PhonePlus == <<"+", "5", "+", "5">>
\* the objects of the JSON array the completion service can return
RawCandidates ==
  { [name |-> "Sarah", phone |-> Phone555,  email |-> ""],
    [name |-> "",      phone |-> Phone555,  email |-> ""],
    [name |-> NoKey,   phone |-> PhonePlus, email |-> ""],
    [name |-> "",      phone |-> <<>>,      email |-> ""] }
RawExtractions == SeqsUpTo(RawCandidates, MaxRefs)

\* referral.get('name') / referral_info.get('name', default)
GetName(referral, default) == IF referral.name = NoKey THEN default ELSE referral.name

\* lines 80-94: keep a candidate with a name, phone or email; clean its phone
CleanOne(referral) == [referral EXCEPT !.phone = clean_phone(referral.phone)]
Survives(referral) ==
  GetName(referral, "") # "" \/ referral.phone # <<>> \/ referral.email # ""
RECURSIVE cleaned_referrals(_)
cleaned_referrals(raw) ==
  IF raw = <<>> THEN <<>>
  ELSE IF Survives(Head(raw))
       THEN <<CleanOne(Head(raw))>> \o cleaned_referrals(Tail(raw))
       ELSE cleaned_referrals(Tail(raw))

\* create_tenant / bulk_create_tenants
NewTenant ==
  [status |-> "active", last_contacted |-> "null",
   referrals_provided |-> 0, conversation_history |-> <<>>]

\* create_lead: a lead of the other intake path; its name may have been filled since
IntakeLead(name) ==
  [name |-> name, email |-> "", chat_history |-> <<>>, tour_ready |-> FALSE,
   referral_source |-> <<>>]
ExistingPhone == <<"+", "1", "5", "5", "5">>

\* lead_data of create_referral_lead
ReferralLead(referral_info, referring_tenant_phone) ==
  [name |-> GetName(referral_info, ""), email |-> referral_info.email,
   chat_history |-> <<"Referral from", referring_tenant_phone>>,
   tour_ready |-> FALSE,
   referral_source |-> <<"Referred by", referring_tenant_phone>>]

\* updates of the existing-lead branch of create_referral_lead (lines 169-172)
updates(existing, referral_info, referring_tenant_phone) ==
  [referral_source |-> <<"Referred By", referring_tenant_phone>>,
   name |-> GetName(referral_info, existing.name)]

\* new_entry of add_tenant_message (the timestamp text is left out)
LogEntry(text, sender) ==
  [sender |-> IF sender = "tenant" THEN "Tenant" ELSE "AI", text |-> text]

\* ------------------------------------------------------------ the state
VARIABLES
  tenants,        \* table "tenants": phone -> record
  leads,          \* table "leads": phone -> record, on the stored phones
  pc,             \* position of the running handler, "idle" between runs
  tenant_phone, message,           \* arguments of process_referral_conversation
  tenant,         \* its local tenant: <<>> for None, <<record>> otherwise
  referral_info, ridx,             \* the extracted candidates and the loop position
  existing_lead,  \* local of create_referral_lead
  read,           \* the tenant row read by increment_tenant_referrals / add_tenant_message
  ai_response, ret,                \* the generated reply and the returned value
  eligible, bidx, results,         \* locals of send_referral_blast
  calls,          \* history: collaborator calls issued in the current run
  writes,         \* history: persistence writes issued in the current run
  db_faults,      \* history: a persistence call of the current run has failed
  inc_lost,       \* history: per tenant, creations whose count update did not go through
  created,        \* history: leads newly created per referring tenant
  attempts,       \* history: send attempts per tenant in the current blast run
  send_failed,    \* history: tenants whose blast send failed in the current run
  nturns,         \* handler runs so far
  input, output,  \* argument of a pure helper under test, and <<its result>>
  event, statusCode,  \* lambda_handler: the shape of the latest event and the statusCode answered
  blast_sent,     \* history: blast sends per tenant over all runs
  blast_faults,   \* history: a call of some blast run has failed
  cpc, cref, cread, cfaults   \* two concurrent turns: position, candidate, row read, faults

vars == <<tenants, leads, pc, tenant_phone, message, tenant, referral_info, ridx,
          existing_lead, read, ai_response, ret, eligible, bidx, results,
          calls, writes, db_faults, created, inc_lost, attempts, send_failed, nturns,
          input, output, event, statusCode, blast_sent, blast_faults, cpc, cref, cread, cfaults>>

db == <<tenants, leads>>
turnLocals == <<tenant_phone, message, tenant, referral_info, ridx, existing_lead,
                ai_response, ret>>
blastLocals == <<eligible, bidx, results, attempts, send_failed>>
blastHist == <<blast_sent, blast_faults>>
probe == <<input, output>>
http == <<event, statusCode>>
conc == <<cpc, cref, cread, cfaults>>

NoResults == [successful_sends |-> 0, failed_sends |-> 0, total_tenants |-> 0]

IdleLocals ==
  /\ pc = "idle"
  /\ tenant_phone = "u1" /\ message = NoMessage /\ tenant = <<>>
  /\ referral_info = <<>> /\ ridx = 1 /\ existing_lead = <<>> /\ read = <<>>
  /\ ai_response = "" /\ ret = ""
  /\ eligible = <<>> /\ bidx = 1 /\ results = <<>>
  /\ calls = {} /\ writes = 0 /\ db_faults = FALSE
  /\ attempts = [t \in TenantPhones |-> 0] /\ send_failed = {}

\* no event handled yet, no blast sent, no concurrent turns under way
NoEvent == [body |-> "none", event_type |-> "none"]
Procs == {"A", "B"}
NothingElse ==
  /\ event = NoEvent /\ statusCode = 0
  /\ blast_sent = [t \in TenantPhones |-> 0] /\ blast_faults = FALSE
  /\ cpc = [i \in Procs |-> "off"] /\ cref = [i \in Procs |-> <<>>]
  /\ cread = [i \in Procs |-> <<>>] /\ cfaults = FALSE

\* the locals of a finished run are gone
ResetLocals ==
  /\ pc' = "idle"
  /\ tenant_phone' = "u1" /\ message' = NoMessage /\ tenant' = <<>>
  /\ referral_info' = <<>> /\ ridx' = 1 /\ existing_lead' = <<>> /\ read' = <<>>
  /\ ai_response' = "" /\ ret' = ""
  /\ eligible' = <<>> /\ bidx' = 1 /\ results' = <<>>
  /\ calls' = {} /\ writes' = 0 /\ db_faults' = FALSE
  /\ attempts' = [t \in TenantPhones |-> 0] /\ send_failed' = {}

Init ==
  /\ tenants = [t \in TenantPhones |-> NewTenant]
  /\ \E name \in {"", "Bob"} :
       leads \in {<<>>, [p \in {ExistingPhone} |-> IntakeLead(name)]}
  /\ IdleLocals
  /\ created = [t \in TenantPhones |-> 0]
  /\ inc_lost = [t \in TenantPhones |-> 0]
  /\ nturns = 0
  /\ input = <<>> /\ output = <<>>
  /\ NothingElse

\* ---------------------------------------- process_referral_conversation
\* an except branch that re-raises instead of answering
Caught_propagates ==
  /\ ret' = ret
  /\ pc' = "raised"

\* the except branch of process_referral_conversation (lines 84-86)
Caught ==
  /\ ret' = FallbackReply
  /\ pc' = "done"

\* a turn starts; building the three clients raises when a credential is missing
Receive(p, m, configured) ==
  /\ pc = "idle" /\ nturns < MaxTurns
  /\ tenant_phone' = p /\ message' = m
  /\ calls' = {} /\ writes' = 0 /\ db_faults' = FALSE
  /\ IF configured THEN pc' = "get_tenant" /\ ret' = ret ELSE Caught
  /\ UNCHANGED <<db, tenant, referral_info, ridx, existing_lead, read, ai_response,
                 blastLocals, created, inc_lost, nturns, probe, blastHist, conc>>

\* ------------------------------------------------------- lambda_handler
\* the webhook events: a body that json.loads rejects, a body that is JSON but no
\* object (body.get fails), and an object with or without the event type looked for
Events ==
  {[body |-> b, event_type |-> "absent", from |-> "u1", text |-> NoMessage] :
     b \in {"not_json", "not_object"}}
  \cup {[body |-> "object", event_type |-> t, from |-> "u1", text |-> NoMessage] :
          t \in {"absent", "message.sent"}}
  \cup {[body |-> "object", event_type |-> "message.received", from |-> p, text |-> m] :
          p \in SenderPhones, m \in Messages}

Shape(ev) == [body |-> ev.body, event_type |-> ev.event_type]

\* a handler that forgets the event_type test of line 22
Processed_anyType(ev) == ev.body = "object"

\* lines 19-22: the body parses and the event is a received message
Processed(ev) == ev.body = "object" /\ ev.event_type = "message.received"

\* lines 17-40: an event that is not processed is answered at once, 200 when it is
\* ignored (line 23), 500 when parsing it raised (lines 38-40); a received message
\* starts a conversation turn
lambda_handler(ev, configured) ==
  /\ event' = Shape(ev)
  /\ IF Processed(ev)
     THEN /\ Receive(ev.from, ev.text, configured)
          /\ statusCode' = 0
     ELSE /\ pc = "idle" /\ nturns < MaxTurns
          /\ statusCode' = IF ev.body = "object" THEN 200 ELSE 500
          /\ nturns' = nturns + 1
          /\ UNCHANGED <<db, pc, turnLocals, read, blastLocals, calls, writes, db_faults,
                         created, inc_lost, probe, blastHist, conc>>

\* a lookup whose missing tenant is not turned away
GetTenant_fallthrough(ok) ==
  /\ pc = "get_tenant"
  /\ calls' = calls \cup {"get_tenant_by_phone"} /\ db_faults' = (db_faults \/ ~ok)
  /\ tenant' = IF ok /\ tenant_phone \in DOMAIN tenants
               THEN <<tenants[tenant_phone]>> ELSE <<>>
  /\ pc' = "classify" /\ ret' = ret
  /\ UNCHANGED <<db, tenant_phone, message, referral_info, ridx, existing_lead, read,
                 ai_response, blastLocals, writes, created, inc_lost, nturns, probe, http, blastHist, conc>>

\* lines 53-57; get_tenant_by_phone gives None on a failed query
GetTenant(ok) ==
  /\ pc = "get_tenant"
  /\ calls' = calls \cup {"get_tenant_by_phone"} /\ db_faults' = (db_faults \/ ~ok)
  /\ tenant' = IF ok /\ tenant_phone \in DOMAIN tenants
               THEN <<tenants[tenant_phone]>> ELSE <<>>
  /\ IF tenant' = <<>> THEN Caught ELSE pc' = "classify" /\ ret' = ret
  /\ UNCHANGED <<db, tenant_phone, message, referral_info, ridx, existing_lead, read,
                 ai_response, blastLocals, writes, created, inc_lost, nturns, probe, http, blastHist, conc>>

\* line 60; None has no lower(), the AttributeError reaches the except branch
Classify ==
  /\ pc = "classify"
  /\ IF message = NoMessage THEN Caught
     ELSE /\ pc' = IF is_declining(message) THEN "decline" ELSE "extract"
          /\ ret' = ret
  /\ UNCHANGED <<db, tenant_phone, message, tenant, referral_info, ridx, existing_lead,
                 read, ai_response, blastLocals, calls, writes, db_faults, created,
                 inc_lost, nturns, probe, http, blastHist, conc>>

\* update_tenant_status that reports success without writing the status
StatusUpdated_lost(phone, status, ok) ==
  IF ok /\ phone \in DOMAIN tenants
  THEN [tenants EXCEPT ![phone].last_contacted = "recent"]
  ELSE tenants

\* update_tenant_status: the row changes only when the update goes through
StatusUpdated(phone, status, ok) ==
  IF ok /\ phone \in DOMAIN tenants
  THEN [tenants EXCEPT ![phone].status = status, ![phone].last_contacted = "recent"]
  ELSE tenants

\* lines 61-62
Decline(ok) ==
  /\ pc = "decline"
  /\ calls' = calls \cup {"update_tenant_status"} /\ writes' = writes + 1 /\ db_faults' = (db_faults \/ ~ok)
  /\ tenants' = StatusUpdated(tenant_phone, "declined", ok)
  /\ ret' = DeclineAck /\ pc' = "done"
  /\ UNCHANGED <<leads, tenant_phone, message, tenant, referral_info, ridx, existing_lead,
                 read, ai_response, blastLocals, created, inc_lost, nturns, probe, http, blastHist, conc>>

\* line 65; extract_referral_info gives [] on a failed call or unparsable content
Extract(ok, raw) ==
  /\ pc = "extract"
  /\ calls' = calls \cup {"extract_referral_info"} /\ db_faults' = db_faults
  /\ referral_info' = IF ok THEN cleaned_referrals(raw) ELSE <<>>
  /\ ridx' = 1
  /\ pc' = IF referral_info' # <<>> THEN "crl_get" ELSE "generate"
  /\ UNCHANGED <<db, tenant_phone, message, tenant, existing_lead, read, ai_response, ret,
                 blastLocals, writes, created, inc_lost, nturns, probe, http, blastHist, conc>>

\* lines 69-70: the loop goes to its next candidate, or on to the reply
NextReferral ==
  IF ridx < Len(referral_info)
  THEN pc' = "crl_get" /\ ridx' = ridx + 1
  ELSE pc' = "generate" /\ ridx' = ridx

referral == referral_info[ridx]

\* create_referral_lead line 164; get_lead_by_phone gives None on a failed query
CrlGet(ok) ==
  /\ pc = "crl_get"
  /\ calls' = calls \cup {"get_lead_by_phone"} /\ db_faults' = (db_faults \/ ~ok)
  /\ existing_lead' = IF ok /\ referral.phone \in DOMAIN leads
                      THEN <<leads[referral.phone]>> ELSE <<>>
  /\ pc' = IF existing_lead' # <<>> THEN "crl_update" ELSE "crl_insert"
  /\ UNCHANGED <<db, tenant_phone, message, tenant, referral_info, ridx, read, ai_response,
                 ret, blastLocals, writes, created, inc_lost, nturns, probe, http, blastHist, conc>>

\* a back-fill that is counted like a creation
CrlUpdate_counting(ok) ==
  /\ pc = "crl_update"
  /\ IF existing_lead[1].referral_source = <<>>
     THEN /\ calls' = calls \cup {"update_lead"} /\ writes' = writes + 1 /\ db_faults' = (db_faults \/ ~ok)
          /\ leads' = IF ok /\ referral.phone \in DOMAIN leads
                      THEN LET u == updates(existing_lead[1], referral, tenant_phone)
                           IN  [leads EXCEPT ![referral.phone].referral_source = u.referral_source,
                                             ![referral.phone].name = u.name]
                      ELSE leads
     ELSE UNCHANGED <<calls, writes, db_faults, leads>>
  /\ existing_lead' = <<>>
  /\ pc' = "inc_get" /\ ridx' = ridx
  /\ UNCHANGED <<tenants, tenant_phone, message, tenant, referral_info, read, ai_response,
                 ret, blastLocals, created, inc_lost, nturns, probe, http, blastHist, conc>>

\* create_referral_lead lines 166-174
CrlUpdate(ok) ==
  /\ pc = "crl_update"
  /\ IF existing_lead[1].referral_source = <<>>
     THEN /\ calls' = calls \cup {"update_lead"} /\ writes' = writes + 1 /\ db_faults' = (db_faults \/ ~ok)
          /\ leads' = IF ok /\ referral.phone \in DOMAIN leads
                      THEN LET u == updates(existing_lead[1], referral, tenant_phone)
                           IN  [leads EXCEPT ![referral.phone].referral_source = u.referral_source,
                                             ![referral.phone].name = u.name]
                      ELSE leads
     ELSE UNCHANGED <<calls, writes, db_faults, leads>>
  /\ existing_lead' = <<>>
  /\ NextReferral
  /\ UNCHANGED <<tenants, tenant_phone, message, tenant, referral_info, read, ai_response,
                 ret, blastLocals, created, inc_lost, nturns, probe, http, blastHist, conc>>

\* create_referral_lead lines 176-199; the leads table is keyed by phone, an
\* insert under a stored phone is refused
CrlInsert(ok) ==
  /\ pc = "crl_insert"
  /\ calls' = calls \cup {"insert_lead"} /\ writes' = writes + 1
  /\ LET inserted == ok /\ referral.phone \notin DOMAIN leads
     IN  /\ db_faults' = (db_faults \/ ~inserted)
         /\ leads' = IF inserted
                     THEN leads @@ (referral.phone :> ReferralLead(referral, tenant_phone))
                     ELSE leads
         /\ created' = IF inserted
                       THEN [created EXCEPT ![tenant_phone] = @ + 1] ELSE created
         /\ IF inserted THEN pc' = "inc_get" /\ ridx' = ridx ELSE NextReferral
  /\ UNCHANGED <<tenants, tenant_phone, message, tenant, referral_info, existing_lead, read,
                 ai_response, ret, blastLocals, inc_lost, nturns, probe, http, blastHist, conc>>

\* increment_tenant_referrals line 129
IncGet(ok) ==
  /\ pc = "inc_get"
  /\ calls' = calls \cup {"get_tenant_by_phone"} /\ db_faults' = (db_faults \/ ~ok)
  /\ read' = IF ok /\ tenant_phone \in DOMAIN tenants THEN <<tenants[tenant_phone]>> ELSE <<>>
  /\ IF read' # <<>> THEN pc' = "inc_update" /\ ridx' = ridx ELSE NextReferral
  /\ inc_lost' = IF read' # <<>> THEN inc_lost ELSE [inc_lost EXCEPT ![tenant_phone] = @ + 1]
  /\ UNCHANGED <<db, tenant_phone, message, tenant, referral_info, existing_lead, ai_response,
                 ret, blastLocals, writes, created, nturns, probe, http, blastHist, conc>>

\* increment_tenant_referrals lines 131-137
IncUpdate(ok) ==
  /\ pc = "inc_update"
  /\ calls' = calls \cup {"increment_tenant_referrals"} /\ writes' = writes + 1 /\ db_faults' = (db_faults \/ ~ok)
  /\ tenants' = IF ok
                THEN [tenants EXCEPT ![tenant_phone].referrals_provided =
                                        read[1].referrals_provided + 1,
                                     ![tenant_phone].last_contacted = "recent"]
                ELSE tenants
  /\ read' = <<>>
  /\ inc_lost' = IF ok THEN inc_lost ELSE [inc_lost EXCEPT ![tenant_phone] = @ + 1]
  /\ NextReferral
  /\ UNCHANGED <<leads, tenant_phone, message, tenant, referral_info, existing_lead,
                 ai_response, ret, blastLocals, created, nturns, probe, http, blastHist, conc>>

\* line 73; generate_referral_response gives its fixed reply on a failed call
Generate(ok, reply) ==
  /\ pc = "generate"
  /\ calls' = calls \cup {"generate_referral_response"} /\ db_faults' = db_faults
  /\ ai_response' = IF ok THEN reply ELSE GenFallback
  /\ pc' = "send"
  /\ UNCHANGED <<db, tenant_phone, message, tenant, referral_info, ridx, existing_lead, read,
                 ret, blastLocals, writes, created, inc_lost, nturns, probe, http, blastHist, conc>>

\* line 76; send_sms gives False on a failed send
Send(ok) ==
  /\ pc = "send"
  /\ calls' = calls \cup {"send_sms"} /\ db_faults' = db_faults
  /\ pc' = "log1_get"
  /\ UNCHANGED <<db, tenant_phone, message, tenant, referral_info, ridx, existing_lead, read,
                 ai_response, ret, blastLocals, writes, created, inc_lost, nturns, probe, http, blastHist, conc>>

\* add_tenant_message line 80
AddMessageGet(phone, ok) ==
  /\ calls' = calls \cup {"get_tenant_by_phone"} /\ db_faults' = (db_faults \/ ~ok)
  /\ read' = IF ok /\ phone \in DOMAIN tenants THEN <<tenants[phone]>> ELSE <<>>

\* an append that writes the new entry over the stored history
AddMessagePut_overwrite(phone, text, sender, ok) ==
  /\ calls' = calls \cup {"add_tenant_message"} /\ writes' = writes + 1
  /\ db_faults' = (db_faults \/ ~ok)
  /\ tenants' = IF ok
                THEN [tenants EXCEPT ![phone].conversation_history = <<LogEntry(text, sender)>>,
                                     ![phone].last_contacted = "recent"]
                ELSE tenants
  /\ read' = <<>>

\* add_tenant_message lines 81-93
AddMessagePut(phone, text, sender, ok) ==
  /\ calls' = calls \cup {"add_tenant_message"} /\ writes' = writes + 1 /\ db_faults' = (db_faults \/ ~ok)
  /\ tenants' = IF ok
                THEN [tenants EXCEPT ![phone].conversation_history =
                                        Append(read[1].conversation_history, LogEntry(text, sender)),
                                     ![phone].last_contacted = "recent"]
                ELSE tenants
  /\ read' = <<>>

\* lines 79-82: the two log appends, then the return
LogGet(k, ok) ==
  /\ pc = (IF k = 1 THEN "log1_get" ELSE "log2_get")
  /\ AddMessageGet(tenant_phone, ok)
  /\ IF read' # <<>>
     THEN pc' = (IF k = 1 THEN "log1_put" ELSE "log2_put") /\ ret' = ret
     ELSE IF k = 1 THEN pc' = "log2_get" /\ ret' = ret
          ELSE pc' = "done" /\ ret' = ai_response
  /\ UNCHANGED <<db, tenant_phone, message, tenant, referral_info, ridx, existing_lead,
                 ai_response, blastLocals, writes, created, inc_lost, nturns, probe, http, blastHist, conc>>

LogPut(k, ok) ==
  /\ pc = (IF k = 1 THEN "log1_put" ELSE "log2_put")
  /\ IF k = 1 THEN AddMessagePut(tenant_phone, message, "tenant", ok)
              ELSE AddMessagePut(tenant_phone, <<ai_response>>, "ai", ok)
  /\ IF k = 1 THEN pc' = "log2_get" /\ ret' = ret
              ELSE pc' = "done" /\ ret' = ai_response
  /\ UNCHANGED <<leads, tenant_phone, message, tenant, referral_info, ridx, existing_lead,
                 ai_response, blastLocals, created, inc_lost, nturns, probe, http, blastHist, conc>>

\* the turn's value has been handed to lambda_handler
Return ==
  /\ pc = "done"
  /\ nturns' = nturns + 1
  /\ ResetLocals
  /\ statusCode' = 200
  /\ UNCHANGED <<db, created, inc_lost, probe, event, blastHist, conc>>

\* ------------------------------------------------- send_referral_blast
\* get_tenants_for_blast: active and never contacted or contacted before the cutoff
Eligible(t) ==
  /\ tenants[t].status = "active"
  /\ tenants[t].last_contacted \in {"null", "old"}

Orderings(S) ==
  {q \in [1..Cardinality(S) -> S] : \A i, j \in 1..Cardinality(S) : i # j => q[i] # q[j]}

\* a blast run starts; building the two clients raises when a credential is missing
BlastBegin(configured) ==
  /\ pc = "idle"
  /\ calls' = {} /\ writes' = 0 /\ db_faults' = FALSE
  /\ attempts' = [t \in TenantPhones |-> 0] /\ send_failed' = {}
  /\ pc' = IF configured THEN "b_query" ELSE "b_done"
  /\ UNCHANGED <<db, turnLocals, read, eligible, bidx, results, created, inc_lost, nturns, probe, http, blastHist, conc>>

\* a blast run among the conversation turns
BlastStart(configured) == nturns < MaxTurns /\ BlastBegin(configured)

\* a blast run of a sequence of blast runs
BlastRun(configured) == nturns < MaxBlasts /\ BlastBegin(configured)

\* lines 124-127; the rows come back in the order the database chooses
BlastQuery(ok, rows) ==
  /\ pc = "b_query"
  /\ rows \in Orderings({t \in TenantPhones : Eligible(t)})
  /\ calls' = calls \cup {"get_tenants_for_blast"} /\ db_faults' = (db_faults \/ ~ok)
  /\ eligible' = IF ok THEN rows ELSE <<>>
  /\ bidx' = 1
  /\ IF eligible' = <<>>
     THEN pc' = "b_done" /\ results' = results
     ELSE pc' = "b_send" /\ results' = <<NoResults>>
  /\ UNCHANGED <<db, turnLocals, read, attempts, send_failed, writes, created, inc_lost, nturns, probe, http, conc>>
  /\ blast_faults' = (blast_faults \/ ~ok) /\ blast_sent' = blast_sent

\* a loop that stops at the first failed send
AfterSend_abort(i, n, sent) == IF sent /\ i < n THEN i + 1 ELSE n + 1

\* TelnyxClient.send_referral_blast: where the loop goes after a send
AfterSend(i, n, sent) == IF i < n THEN i + 1 ELSE n + 1

\* TelnyxClient.send_referral_blast lines 63-73, one pass of the loop
BlastSend(ok) ==
  /\ pc = "b_send"
  /\ LET number == eligible[bidx]
     IN  /\ calls' = calls \cup {"send_sms"} /\ db_faults' = db_faults
         /\ attempts' = [attempts EXCEPT ![number] = @ + 1]
         /\ blast_sent' = IF ok THEN [blast_sent EXCEPT ![number] = @ + 1] ELSE blast_sent
         /\ send_failed' = IF ok THEN send_failed ELSE send_failed \cup {number}
         /\ results' = <<[results[1] EXCEPT
                            !.successful_sends = IF ok THEN @ + 1 ELSE @,
                            !.failed_sends = IF ok THEN @ ELSE @ + 1,
                            !.total_tenants = Len(eligible)]>>
  /\ bidx' = AfterSend(bidx, Len(eligible), ok)
  /\ pc' = IF bidx' > Len(eligible) THEN "b_status" ELSE "b_send"
  /\ UNCHANGED <<db, turnLocals, read, eligible, writes, created, inc_lost, nturns, probe, http, conc>>
  /\ blast_faults' = (blast_faults \/ ~ok)

\* line 141, for the first tenant of the loop of lines 140-147
BlastStatus(ok) ==
  /\ pc = "b_status"
  /\ calls' = calls \cup {"update_tenant_status"} /\ writes' = writes + 1 /\ db_faults' = (db_faults \/ ~ok)
  /\ tenants' = StatusUpdated(eligible[1], "contacted", ok)
  /\ pc' = "b_log_get"
  /\ UNCHANGED <<leads, turnLocals, read, blastLocals, created, inc_lost, nturns, probe, http, conc>>
  /\ blast_faults' = (blast_faults \/ ~ok) /\ blast_sent' = blast_sent

\* line 142
BlastLogGet(ok) ==
  /\ pc = "b_log_get"
  /\ AddMessageGet(eligible[1], ok)
  /\ pc' = IF read' # <<>> THEN "b_log_put" ELSE "b_done"
  /\ UNCHANGED <<db, turnLocals, blastLocals, writes, created, inc_lost, nturns, probe, http, conc>>
  /\ blast_faults' = (blast_faults \/ ~ok) /\ blast_sent' = blast_sent

\* line 142, then the return of line 147 inside the loop
BlastLogPut(ok) ==
  /\ pc = "b_log_put"
  /\ AddMessagePut(eligible[1], blast_message, "ai", ok)
  /\ pc' = "b_done"
  /\ UNCHANGED <<leads, turnLocals, blastLocals, created, inc_lost, nturns, probe, http, conc>>
  /\ blast_faults' = (blast_faults \/ ~ok) /\ blast_sent' = blast_sent

\* the run's value has been handed to its caller
BlastReturn ==
  /\ pc = "b_done"
  /\ nturns' = nturns + 1
  /\ ResetLocals
  /\ UNCHANGED <<db, created, inc_lost, probe, http, blastHist, conc>>

\* ------------------------------------------------------ specification
Next ==
  \/ \E ev \in Events, configured \in BOOLEAN : lambda_handler(ev, configured)
  \/ \E ok \in BOOLEAN : GetTenant(ok)
  \/ Classify
  \/ \E ok \in BOOLEAN : Decline(ok)
  \/ \E ok \in BOOLEAN, raw \in RawExtractions : Extract(ok, raw)
  \/ \E ok \in BOOLEAN : CrlGet(ok)
  \/ \E ok \in BOOLEAN : CrlUpdate(ok)
  \/ \E ok \in BOOLEAN : CrlInsert(ok)
  \/ \E ok \in BOOLEAN : IncGet(ok)
  \/ \E ok \in BOOLEAN : IncUpdate(ok)
  \/ \E ok \in BOOLEAN, reply \in Replies : Generate(ok, reply)
  \/ \E ok \in BOOLEAN : Send(ok)
  \/ \E k \in 1..2, ok \in BOOLEAN : LogGet(k, ok)
  \/ \E k \in 1..2, ok \in BOOLEAN : LogPut(k, ok)
  \/ Return
  \/ \E configured \in BOOLEAN : BlastStart(configured)
  \/ \E ok \in BOOLEAN, rows \in Orderings({t \in TenantPhones : Eligible(t)}) : BlastQuery(ok, rows)
  \/ \E ok \in BOOLEAN : BlastSend(ok)
  \/ \E ok \in BOOLEAN : BlastStatus(ok)
  \/ \E ok \in BOOLEAN : BlastLogGet(ok)
  \/ \E ok \in BOOLEAN : BlastLogPut(ok)
  \/ BlastReturn

Spec == Init /\ [][Next]_vars

\* ------------------------------- a tenant answers after a blast run
\* the tables after one blast run over both tenants: both were sent the message,
\* the first of the rows was marked and logged (lines 140-147)
Blasted ==
  [status |-> "contacted", last_contacted |-> "recent", referrals_provided |-> 0,
   conversation_history |-> <<LogEntry(blast_message, "ai")>>]

InitReply ==
  /\ tenants = [t \in TenantPhones |-> IF t = "t1" THEN Blasted ELSE NewTenant]
  /\ \E name \in {"", "Bob"} :
       leads \in {<<>>, [p \in {ExistingPhone} |-> IntakeLead(name)]}
  /\ IdleLocals
  /\ created = [t \in TenantPhones |-> 0]
  /\ inc_lost = [t \in TenantPhones |-> 0]
  /\ nturns = 0
  /\ input = <<>> /\ output = <<>>
  /\ event = NoEvent /\ statusCode = 0
  /\ blast_sent = [t \in TenantPhones |-> 1] /\ blast_faults = FALSE
  /\ cpc = [i \in Procs |-> "off"] /\ cref = [i \in Procs |-> <<>>]
  /\ cread = [i \in Procs |-> <<>>] /\ cfaults = FALSE

SpecReply == InitReply /\ [][Next]_vars

\* ------------------------------------------ a sequence of blast runs
\* every run is inside the eligibility window of the runs before it: the cutoff of
\* get_tenants_for_blast is thirty days, and the model lets no time pass
NextBlast ==
  \/ \E configured \in BOOLEAN : BlastRun(configured)
  \/ \E ok \in BOOLEAN, rows \in Orderings({t \in TenantPhones : Eligible(t)}) : BlastQuery(ok, rows)
  \/ \E ok \in BOOLEAN : BlastSend(ok)
  \/ \E ok \in BOOLEAN : BlastStatus(ok)
  \/ \E ok \in BOOLEAN : BlastLogGet(ok)
  \/ \E ok \in BOOLEAN : BlastLogPut(ok)
  \/ BlastReturn

SpecBlast == Init /\ [][NextBlast]_vars

\* ------------------------------------- two turns handled concurrently
\* Two invocations of process_referral_conversation for the same tenant, each past
\* its extraction with one candidate; their persistence calls interleave. cpc is
\* each invocation's position, cref its candidate, cread the row it last read.
ConcTenant == "t1"
ConcMessage == <<"y", "e", "s", " ", "n", "o">>
ConcCandidates == UNION {Range(cleaned_referrals(<<c>>)) : c \in RawCandidates}
sequential == <<pc, turnLocals, read, blastLocals, calls, writes, db_faults, inc_lost,
                nturns, probe, http, blastHist>>

\* lines 64-70 with one extracted candidate
ConcBegin(i, r) ==
  /\ cpc[i] = "off"
  /\ cpc' = [cpc EXCEPT ![i] = "crl_get"]
  /\ cref' = [cref EXCEPT ![i] = <<r>>]
  /\ UNCHANGED <<db, created, cread, cfaults, sequential>>

\* create_referral_lead line 164
ConcCrlGet(i, ok) ==
  /\ cpc[i] = "crl_get"
  /\ cread' = [cread EXCEPT ![i] = IF ok /\ cref[i][1].phone \in DOMAIN leads
                                   THEN <<leads[cref[i][1].phone]>> ELSE <<>>]
  /\ cpc' = [cpc EXCEPT ![i] = IF cread'[i] # <<>> THEN "crl_update" ELSE "crl_insert"]
  /\ cfaults' = (cfaults \/ ~ok)
  /\ UNCHANGED <<db, created, cref, sequential>>

\* create_referral_lead lines 166-174
ConcCrlUpdate(i, ok) ==
  /\ cpc[i] = "crl_update"
  /\ LET phone == cref[i][1].phone
     IN  IF cread[i][1].referral_source = <<>>
         THEN /\ cfaults' = (cfaults \/ ~ok)
              /\ leads' = IF ok /\ phone \in DOMAIN leads
                          THEN LET u == updates(cread[i][1], cref[i][1], ConcTenant)
                               IN  [leads EXCEPT ![phone].referral_source = u.referral_source,
                                                 ![phone].name = u.name]
                          ELSE leads
         ELSE UNCHANGED <<cfaults, leads>>
  /\ cread' = [cread EXCEPT ![i] = <<>>]
  /\ cpc' = [cpc EXCEPT ![i] = "log1_get"]
  /\ UNCHANGED <<tenants, created, cref, sequential>>

\* create_referral_lead lines 176-199
ConcCrlInsert(i, ok) ==
  /\ cpc[i] = "crl_insert"
  /\ LET phone == cref[i][1].phone
         inserted == ok /\ phone \notin DOMAIN leads
     IN  /\ cfaults' = (cfaults \/ ~inserted)
         /\ leads' = IF inserted
                     THEN leads @@ (phone :> ReferralLead(cref[i][1], ConcTenant))
                     ELSE leads
         /\ created' = IF inserted THEN [created EXCEPT ![ConcTenant] = @ + 1] ELSE created
         /\ cpc' = [cpc EXCEPT ![i] = IF inserted THEN "inc_get" ELSE "log1_get"]
  /\ UNCHANGED <<tenants, cref, cread, sequential>>

\* increment_tenant_referrals line 129
ConcIncGet(i, ok) ==
  /\ cpc[i] = "inc_get"
  /\ cread' = [cread EXCEPT ![i] = IF ok THEN <<tenants[ConcTenant]>> ELSE <<>>]
  /\ cpc' = [cpc EXCEPT ![i] = IF ok THEN "inc_update" ELSE "log1_get"]
  /\ cfaults' = (cfaults \/ ~ok)
  /\ UNCHANGED <<db, created, cref, sequential>>

\* increment_tenant_referrals lines 131-137
ConcIncUpdate(i, ok) ==
  /\ cpc[i] = "inc_update"
  /\ tenants' = IF ok
                THEN [tenants EXCEPT ![ConcTenant].referrals_provided =
                                        cread[i][1].referrals_provided + 1,
                                     ![ConcTenant].last_contacted = "recent"]
                ELSE tenants
  /\ cread' = [cread EXCEPT ![i] = <<>>]
  /\ cpc' = [cpc EXCEPT ![i] = "log1_get"]
  /\ cfaults' = (cfaults \/ ~ok)
  /\ UNCHANGED <<leads, created, cref, sequential>>

\* add_tenant_message line 79 of supabase_client.py, for the k-th append of lines 79-80
ConcLogGet(i, k, ok) ==
  /\ cpc[i] = (IF k = 1 THEN "log1_get" ELSE "log2_get")
  /\ cread' = [cread EXCEPT ![i] = IF ok THEN <<tenants[ConcTenant]>> ELSE <<>>]
  /\ cpc' = [cpc EXCEPT ![i] = IF ok THEN (IF k = 1 THEN "log1_put" ELSE "log2_put")
                               ELSE (IF k = 1 THEN "log2_get" ELSE "end")]
  /\ cfaults' = (cfaults \/ ~ok)
  /\ UNCHANGED <<db, created, cref, sequential>>

\* add_tenant_message lines 81-93
ConcLogPut(i, k, ok) ==
  /\ cpc[i] = (IF k = 1 THEN "log1_put" ELSE "log2_put")
  /\ LET entry == IF k = 1 THEN LogEntry(ConcMessage, "tenant")
                           ELSE LogEntry(<<GenFallback>>, "ai")
     IN  tenants' = IF ok
                    THEN [tenants EXCEPT ![ConcTenant].conversation_history =
                                            Append(cread[i][1].conversation_history, entry),
                                         ![ConcTenant].last_contacted = "recent"]
                    ELSE tenants
  /\ cread' = [cread EXCEPT ![i] = <<>>]
  /\ cpc' = [cpc EXCEPT ![i] = IF k = 1 THEN "log2_get" ELSE "end"]
  /\ cfaults' = (cfaults \/ ~ok)
  /\ UNCHANGED <<leads, created, cref, sequential>>

NextConc ==
  \/ \E i \in Procs, r \in ConcCandidates : ConcBegin(i, r)
  \/ \E i \in Procs, ok \in BOOLEAN : ConcCrlGet(i, ok)
  \/ \E i \in Procs, ok \in BOOLEAN : ConcCrlUpdate(i, ok)
  \/ \E i \in Procs, ok \in BOOLEAN : ConcCrlInsert(i, ok)
  \/ \E i \in Procs, ok \in BOOLEAN : ConcIncGet(i, ok)
  \/ \E i \in Procs, ok \in BOOLEAN : ConcIncUpdate(i, ok)
  \/ \E i \in Procs, k \in 1..2, ok \in BOOLEAN : ConcLogGet(i, k, ok)
  \/ \E i \in Procs, k \in 1..2, ok \in BOOLEAN : ConcLogPut(i, k, ok)

SpecConc == Init /\ [][NextConc]_vars

\* ------------------------------------ specifications of the pure helpers
Quiet ==
  /\ tenants = [t \in TenantPhones |-> NewTenant] /\ leads = <<>>
  /\ IdleLocals /\ NothingElse
  /\ created = [t \in TenantPhones |-> 0]
  /\ inc_lost = [t \in TenantPhones |-> 0]
  /\ nturns = 0

InitDecline ==
  /\ Quiet
  /\ input \in SeqsUpTo(MsgAlphabet, MaxMsgLen) /\ output = <<>>

\* is_declining applied to the message
ClassifyMessage ==
  /\ output = <<>>
  /\ output' = <<is_declining(input)>>
  /\ UNCHANGED <<db, pc, turnLocals, read, blastLocals, calls, writes, db_faults, created,
                 inc_lost, nturns, input, http, blastHist, conc>>

SpecDecline == InitDecline /\ [][ClassifyMessage]_vars

InitPhone ==
  /\ Quiet
  /\ input \in SeqsUpTo(PhoneAlphabet, MaxPhoneLen) /\ output = <<>>

\* the phone cleaning of extract_referral_info applied to a candidate's phone
CleanPhone ==
  /\ output = <<>>
  /\ output' = <<clean_phone(input)>>
  /\ UNCHANGED <<db, pc, turnLocals, read, blastLocals, calls, writes, db_faults, created,
                 inc_lost, nturns, input, http, blastHist, conc>>

SpecPhone == InitPhone /\ [][CleanPhone]_vars

\* ------------------------------------------------------------ properties
TurnPcs == {"get_tenant", "classify", "decline", "extract", "crl_get", "crl_update",
            "crl_insert", "inc_get", "inc_update", "generate", "send", "log1_get",
            "log1_put", "log2_get", "log2_put", "done"}

\* C1: a blast run over N eligible tenants with M failed sends returns
\* successful = N-M, failed = M, total = N and leaves every one of the N tenants
\* with status 'contacted' (stated for the runs in which no persistence call fails).
C1_BlastCountsAndMarksAll ==
  (pc = "b_done" /\ eligible # <<>> /\ ~db_faults) =>
    LET N == Len(eligible)
        M == Cardinality(send_failed)
    IN  /\ results = <<[successful_sends |-> N - M, failed_sends |-> M, total_tenants |-> N]>>
        /\ \A i \in 1..N : tenants[eligible[i]].status = "contacted"

\* what a decline turn never does: no extraction, no reply generation, no send,
\* no log append, the conversation log as it was when the turn read the tenant
DeclineSkipsTheRest ==
  /\ calls \cap {"extract_referral_info", "generate_referral_response", "send_sms",
                 "add_tenant_message"} = {}
  /\ tenants[tenant_phone].conversation_history = tenant[1].conversation_history

\* C2 as stated: a turn of a known tenant whose message is classified as a decline
\* ends with the tenant's status 'declined', with no extraction or generation call
\* and with nothing appended to the conversation log.
C2_DeclineAlwaysRecorded ==
  (pc = "done" /\ ret = DeclineAck) =>
    /\ tenants[tenant_phone].status = "declined"
    /\ DeclineSkipsTheRest

\* C2 amended: the status is 'declined' when the status update goes through, the
\* tenant row is untouched when it fails; either way no extraction, generation or
\* log append happens.
C2_DeclineRecordedUnlessUpdateFails ==
  (pc = "done" /\ ret = DeclineAck) =>
    /\ ~db_faults => tenants[tenant_phone].status = "declined"
    /\ db_faults => tenants[tenant_phone] = tenant[1]
    /\ DeclineSkipsTheRest

C2_Witness ==
  /\ pc = "done" /\ ret = DeclineAck /\ ~db_faults
  /\ tenant # <<>> /\ tenant[1].status = "active"
  /\ tenants[tenant_phone].status = "declined"

\* C3: a turn whose sender has no Tenant record changes no table, issues no
\* persistence write and returns the fixed fallback string, whatever the message.
C3_UnknownSenderNoWrites ==
  [][(pc \in TurnPcs /\ tenant_phone \notin DOMAIN tenants) =>
       /\ writes = 0 /\ (pc' \in TurnPcs => writes' = 0)
       /\ tenants' = tenants /\ leads' = leads /\ created' = created
       /\ pc' \in {"get_tenant", "done", "idle"}
       /\ pc' = "done" => ret' = FallbackReply]_vars

C3_Witness ==
  /\ pc = "done" /\ tenant_phone = "u1" /\ message # NoMessage
  /\ "get_tenant_by_phone" \in calls /\ ~db_faults
  /\ ret = FallbackReply

\* C4 as stated: the turn never raises and whatever fails it returns a non-empty string.
C4_TurnReturnsNonEmpty ==
  /\ pc # "raised"
  /\ pc = "done" => ret # ""

\* C4 amended: the turn never raises and returns a string; the string is empty only
\* when it is the generated reply and the completion service produced blank content,
\* and every failure path returns a fixed non-empty text.
C4_TurnAlwaysReturnsText ==
  /\ pc # "raised"
  /\ pc = "done" =>
       /\ ret \in {FallbackReply, DeclineAck, GenFallback} \cup Replies
       /\ ret = "" => (ret = ai_response /\ "generate_referral_response" \in calls)
       /\ (tenant = <<>> \/ message = NoMessage) => ret = FallbackReply

C4_Witness ==
  /\ pc = "done" /\ tenant # <<>> /\ message = NoMessage
  /\ ret = FallbackReply

\* the vocabulary of the classifier as the specification lists it
PositiveTerms ==
  { <<"i", " ", "k", "n", "o", "w">>, <<"y", "e", "s">>, <<"y", "e", "a", "h">>,
    <<"s", "u", "r", "e">>, <<"f", "r", "i", "e", "n", "d">>,
    <<"s", "o", "m", "e", "o", "n", "e">>, <<"l", "o", "o", "k", "i", "n", "g">>,
    <<"i", "n", "t", "e", "r", "e", "s", "t", "e", "d">>, <<"m", "i", "g", "h", "t">>,
    <<"c", "o", "u", "l", "d">>, <<"n", "a", "m", "e", " ", "i", "s">>,
    <<"n", "u", "m", "b", "e", "r", " ", "i", "s">>, <<"p", "h", "o", "n", "e">>,
    <<"c", "o", "n", "t", "a", "c", "t">>, <<"e", "m", "a", "i", "l">> }
DeclineTerms ==
  { <<"n", "o">>, <<"n", "o", "p", "e">>,
    <<"n", "o", "t", " ", "r", "e", "a", "l", "l", "y">>,
    <<"n", "o", "b", "o", "d", "y">>,
    <<"n", "o", "t", " ", "i", "n", "t", "e", "r", "e", "s", "t", "e", "d">>,
    <<"d", "o", "n", "'", "t", " ", "k", "n", "o", "w", " ", "a", "n", "y", "o", "n", "e">>,
    <<"d", "o", "n", "t", " ", "k", "n", "o", "w", " ", "a", "n", "y", "o", "n", "e">>,
    <<"n", "o", " ", "o", "n", "e">>,
    <<"n", "o", "t", " ", "r", "i", "g", "h", "t", " ", "n", "o", "w">>,
    <<"n", "o", "t", " ", "a", "t", " ", "t", "h", "e", " ", "m", "o", "m", "e", "n", "t">>,
    <<"c", "a", "n", "'", "t", " ", "t", "h", "i", "n", "k", " ", "o", "f", " ", "a", "n", "y", "o", "n", "e">> }

\* p is a substring of s
Occurs(p, s) == \E i \in 1..(Len(s) - Len(p) + 1) : SubSeq(s, i, i + Len(p) - 1) = p
HasPositive(m) == \E p \in PositiveTerms : Occurs(p, Strip(Lower(m)))
HasDecline(m) == \E p \in DeclineTerms : Occurs(p, Strip(Lower(m)))

\* C5: is_declining is true exactly when the lowercased, trimmed message contains
\* no positive-signal term and at least one decline term; a message with both a
\* positive and a decline term is never a decline.
C5_DeclineRule ==
  output # <<>> =>
    /\ output[1] = (~HasPositive(input) /\ HasDecline(input))
    /\ (HasPositive(input) /\ HasDecline(input)) => output[1] = FALSE

C5_Witness ==
  /\ output = <<FALSE>>
  /\ HasPositive(input) /\ HasDecline(input)
  /\ input # Lower(input)

Count(t) == tenants[t].referrals_provided
\* a creation by t whose count update is still to come
InFlight(t) == IF pc \in {"inc_get", "inc_update"} /\ tenant_phone = t THEN 1 ELSE 0

C7_ExistingLeadNeverOverwritten ==
  [][\A ph \in DOMAIN leads :
       /\ ph \in DOMAIN leads'
       /\ leads[ph].referral_source # <<>> =>
            leads'[ph].referral_source = leads[ph].referral_source
       /\ leads[ph].name # "" => leads'[ph].name = leads[ph].name
       /\ leads'[ph].email = leads[ph].email
       /\ leads'[ph].chat_history = leads[ph].chat_history
       /\ leads'[ph].tour_ready = leads[ph].tour_ready]_vars

\* the normalization rule as the specification words it
RefNormalize(phone) ==
  LET p == SelectSeq(phone, LAMBDA c : c \in Digits \cup {"+"})
  IN  IF p # <<>> /\ Head(p) # "+"
      THEN <<"+", "1">> \o (IF Head(p) = "1" THEN Tail(p) ELSE p)
      ELSE p

\* C8: the cleaned phone of every non-empty candidate phone equals the reference
\* rule (drop what is neither digit nor '+'; without a leading '+', strip one
\* leading '1' and prepend '+1').
C8_PhoneMatchesReference ==
  (output # <<>> /\ input # <<>>) => output[1] = RefNormalize(input)

WellFormedPhone(ph) ==
  \/ ph = <<>>
  \/ Head(ph) = "+" /\ \A i \in 2..Len(ph) : ph[i] \in Digits

\* C9: every stored lead's phone is empty or one leading '+' followed by digits only.
C9_StoredPhonesWellFormed ==
  \A ph \in DOMAIN leads : WellFormedPhone(ph)

\* C10: in a blast run each eligible tenant's send is attempted exactly once, in
\* order, a failed send does not stop the sends that follow, and failures are counted.
C10_EachSendAttemptedOnce ==
  /\ pc = "b_send" =>
       /\ bidx \in 1..Len(eligible)
       /\ \A i \in 1..Len(eligible) : attempts[eligible[i]] = (IF i < bidx THEN 1 ELSE 0)
  /\ (pc \in {"b_status", "b_log_get", "b_log_put", "b_done"} /\ eligible # <<>>) =>
       /\ \A t \in TenantPhones : attempts[t] = (IF t \in Range(eligible) THEN 1 ELSE 0)
       /\ results[1].failed_sends = Cardinality(send_failed)
       /\ results[1].successful_sends = Len(eligible) - Cardinality(send_failed)
  /\ send_failed \subseteq Range(eligible)

C10_Witness ==
  /\ pc = "b_done" /\ Len(eligible) = 2
  /\ eligible[1] \in send_failed /\ eligible[2] \notin send_failed
  /\ attempts[eligible[1]] = 1 /\ attempts[eligible[2]] = 1

\* a step in which lambda_handler answers an event without running a turn
AnsweredAtOnce == pc = "idle" /\ pc' = "idle" /\ nturns' # nturns
ReceivedMessage(e) == e.body = "object" /\ e.event_type = "message.received"
NoTurnRan == tenants' = tenants /\ leads' = leads /\ calls' = {} /\ writes' = 0

LogBefore == tenant[1].conversation_history
LogNow == tenants[tenant_phone].conversation_history

\* C12: in a non-decline turn of a known tenant in which no persistence call fails
\* nothing is logged before the reply is sent; afterwards the log is the previous
\* log followed by the inbound message (Tenant) and then the reply (AI), and the
\* reply is what the turn returns.
C12_SendThenTwoEntries ==
  (pc \in TurnPcs /\ tenant # <<>>) =>
    /\ pc \in {"classify", "decline", "extract", "crl_get", "crl_update", "crl_insert",
               "inc_get", "inc_update", "generate", "send"} =>
         (LogNow = LogBefore /\ "add_tenant_message" \notin calls)
    /\ pc \in {"log1_get", "log1_put", "log2_get", "log2_put"} => "send_sms" \in calls
    /\ (pc \in {"log2_get", "log2_put"} /\ ~db_faults) =>
         LogNow = Append(LogBefore, LogEntry(message, "tenant"))
    /\ (pc = "done" /\ "send_sms" \in calls /\ ~db_faults) =>
         /\ LogNow = LogBefore \o <<LogEntry(message, "tenant"), LogEntry(<<ai_response>>, "ai")>>
         /\ LogNow[Len(LogNow) - 1].sender = "Tenant" /\ LogNow[Len(LogNow)].sender = "AI"
         /\ ret = ai_response

C12_Witness ==
  /\ pc = "done" /\ tenant # <<>> /\ "send_sms" \in calls /\ ~db_faults
  /\ LogBefore # <<>> /\ Len(LogNow) = Len(LogBefore) + 2
  /\ referral_info # <<>> /\ ai_response \in Replies \ {""}

\* C13: across a sequence of blast runs inside the eligibility window no tenant is
\* sent the blast message twice: a tenant the message was sent to is not among the
\* eligible rows of a later run.
\* (stated of the runs in which every send and every database call succeeds)
C13_NoTenantBlastedTwice ==
  ~blast_faults =>
    /\ \A t \in TenantPhones : blast_sent[t] <= 1
    /\ pc = "b_send" => \A i \in bidx..Len(eligible) : blast_sent[eligible[i]] = 0

\* C14: two turns handled concurrently for the same referring tenant, each newly
\* creating a lead (distinct phones), no call failing: when both have finished, the
\* tenant's referral count is exactly 2 higher (it starts at 0).
C14_NoIncrementLost ==
  (/\ \A i \in Procs : cpc[i] = "end"
   /\ ~cfaults
   /\ created[ConcTenant] = 2)
    => tenants[ConcTenant].referrals_provided = 2
====
